---- MODULE Spec2Model ----
(***************************************************************************)
(* RealtimeAPI (src/lib/api.js): one client object that owns at most one   *)
(* WebSocket in this.ws, the channels it constructs in connect(), the      *)
(* callbacks those channels deliver, and send()/receive()/disconnect().    *)
(* src/unnamed/part_000 is the same class with another endpoint.           *)
(* The dispatcher (event_handler.js) and generateId (utils.js) are         *)
(* imported by api.js and are modelled from the specification.             *)
(* A WebSocket delivers 'open' at most once and before any 'message';      *)
(* 'error' at most once, before or after 'open'; 'close' once, last.       *)
(***************************************************************************)
EXTENDS Integers, Sequences, FiniteSets, TLC

VARIABLES listeners, ws, sockets, idCount, sendCalls, sentIds,
          pairFirst, last

vars ==
  <<listeners, ws, sockets, idCount, sendCalls, sentIds, pairFirst,
    last>>

\* ---------------------------------------------------------------- bounds
\* channels one run may construct
MaxChannels == 2
\* top-level send() calls of one run that pass both checks
MaxSends == 2

\* ---------------------------------------------------------------- values
\* this.ws = null
Null == 0

Channels == 1..MaxChannels

\* A JavaScript object is an ordered list of <<key, value>> members with
\* distinct keys; every member value is a string.
EmptyObject == <<>>

Has(obj, k) == \E i \in DOMAIN obj : obj[i][1] = k

Get(obj, k) == obj[CHOOSE i \in DOMAIN obj : obj[i][1] = k][2]

\* obj[k] = v : an existing key keeps its position, a new key is appended
SetMember(obj, k, v) ==
  IF Has(obj, k)
  THEN [i \in DOMAIN obj |-> IF obj[i][1] = k THEN <<k, v>> ELSE obj[i]]
  ELSE Append(obj, <<k, v>>)

\* { ...base, ...src } : the members of src, in order, written over base
RECURSIVE Spread(_, _)
Spread(base, src) ==
  IF src = <<>> THEN base
  ELSE Spread(SetMember(base, Head(src)[1], Head(src)[2]), Tail(src))

\* A JavaScript value handed to send() as data: its typeof class, whether it
\* is truthy, and its own enumerable members.
Value(k, t, f) == [kind |-> k, truthy |-> t, fields |-> f]

Undefined == Value("undefined", FALSE, <<>>)

DataValues ==
  { Undefined,
    Value("number", FALSE, <<>>),
    Value("number", TRUE, <<>>),
    Value("string", FALSE, <<>>),
    Value("boolean", FALSE, <<>>),
    Value("object", TRUE, << <<"n", "1">> >>),
    Value("object", TRUE, << <<"event_id", "evt_dup">>, <<"type", "pong">> >>) }

\* typeof v
TypeOf(v) == IF v.kind \in {"object", "array", "null"} THEN "object" ELSE v.kind

EventNames == {"ping"}

\* what a listener registered by the caller does when it is invoked:
\* nothing, disconnect(), or send(NestedName) in answer to an event that is
\* not its own. `listeners` holds the behaviour of the listeners the caller
\* has registered for client.<eventName> and for client.*
ListenerBehaviours == {"none", "disconnect", "send"}

\* the registrations considered: at most one of the two listeners acts
ListenerConfigs ==
  {l \in ListenerBehaviours \X ListenerBehaviours :
     l[1] = "none" \/ l[2] = "none"}

\* the text of the inbound messages the server may deliver
InboundTexts ==
  { << <<"type", "bye">>, <<"x", "1">>, <<"x", "2">> >> }

\* ---------------------------------------------------------------- channel
\* One WebSocket constructed by connect():
\*   st      "none" (no connect() call yet), "importing" (connect() has passed
\*           its check and has not constructed the socket yet), "connecting",
\*           "open", "closing" (close() called or the socket failed; its
\*           'close' event is still to come), "closed"
\*   opened  the 'open' listener has run: the post-open listeners are bound
\*   errored whether the socket has delivered its 'error' event: "no", or
\*           when it did: "before-open", or after 'open' while it was this.ws
\*           ("owned") or while it was not ("not-owned")
\*   future  the promise connect() returned
\*   closes  the error flags of the local `close` notifications its listeners
\*           dispatched
NoSocket ==
  [st |-> "none", opened |-> FALSE, errored |-> "no", future |-> "none",
   closes |-> <<>>]

\* ---------------------------------------------------------------- machine
\* The part of the state the synchronous code of one call reads and writes.
Machine(w, s, n, ids, p) ==
  [ws |-> w, sockets |-> s, idCount |-> n, sentIds |-> ids, pairFirst |-> p,
   calls |-> 0, trace |-> <<>>, result |-> "none"]

Now == Machine(ws, sockets, idCount, sentIds, pairFirst)

Dispatched(call, name, event) ==
  [call |-> call, kind |-> "dispatch", name |-> name, event |-> event,
   ch |-> Null]

Written(call, ch, text) ==
  [call |-> call, kind |-> "write", name |-> "", event |-> text, ch |-> ch]

\* isConnected(): !!this.ws
isConnected(w) == w # Null

\* WebSocket.close() on an open socket starts the closing handshake
SocketClose(s) == IF s.st = "open" THEN [s EXCEPT !.st = "closing"] ELSE s

\* disconnect(ws) without the identity test
disconnectAppliesToAny(h, w) == TRUE

\* the test of disconnect(ws): !ws || this.ws === ws
disconnectApplies(h, w) == h = Null \/ w = h

\* disconnect(ws)
disconnect(m, h) ==
  LET m0 == [m EXCEPT !.pairFirst = Null] IN
  IF disconnectApplies(h, m0.ws)
  THEN [m0 EXCEPT !.sockets = IF m0.ws # Null
                              THEN [@ EXCEPT ![m0.ws] = SocketClose(@)]
                              ELSE @,
                  !.ws = Null,
                  !.result = "true"]
  ELSE [m0 EXCEPT !.result = "undefined"]

\* RealtimeUtils.generateId(prefix): the n-th id generated in this run; no two
\* calls return the same string
generateId(prefix, n) == prefix \o ToString(n)

\* JSON.stringify(event), JSON.parse(text): the wire text lists the members
\* in order; parsing keeps the last value of a repeated key
JSONstringify(event) == [i \in DOMAIN event |-> <<event[i][1], event[i][2]>>]

JSONparse(text) == Spread(EmptyObject, text)

Called(call, name, w) ==
  [call |-> call, kind |-> "call", name |-> name, event |-> <<>>, ch |-> w]

Returned(call, result) ==
  [call |-> call, kind |-> "return", name |-> result, event |-> <<>>,
   ch |-> Null]

Generated(call, id) ==
  [call |-> call, kind |-> "generate", name |-> id, event |-> <<>>,
   ch |-> Null]

Log(m, e) == [m EXCEPT !.trace = Append(@, e)]

\* the event a listener sends when it re-enters send()
NestedName == "pong"

\* send() with the payload check first: a disconnected client gets as far
\* as the payload check
sendRejectsNothing(w) == FALSE

\* first check of send(): !this.isConnected()
sendRejectsDisconnected(w) == ~isConnected(w)

\* data = data || {}
sendDefault(data) == IF data.truthy THEN data ELSE Value("object", TRUE, <<>>)

\* second check of send(): typeof data !== 'object'
sendRejectsPayload(data) == TypeOf(data) # "object"

\* { event_id: generateId('evt_'), type: eventName, ...data }
sendEvent(id, eventName, data) ==
  Spread(<< <<"event_id", id>>, <<"type", eventName>> >>, data.fields)

RECURSIVE send(_, _, _, _, _)
RECURSIVE dispatch(_, _, _, _, _, _, _)

\* dispatch(name, event) made by call `call` of send(): the notification,
\* then the caller's listener for it, run synchronously. A listener that
\* re-enters send() handles that call's failure itself, and does not answer
\* the event it sent.
dispatch(m, call, name, event, behaviour, ls, depth) ==
  LET m1 == Log(m, Dispatched(call, name, event)) IN
  CASE behaviour = "disconnect" -> disconnect(m1, Null)
    [] behaviour = "send" /\ depth = 0 ->
         send(m1, NestedName, Undefined, ls, depth + 1)
    [] OTHER -> m1

\* send(eventName, data)
send(m, eventName, data, ls, depth) ==
  LET call == m.calls + 1
      m0 == Log([m EXCEPT !.calls = call], Called(call, eventName, m.ws))
      Return(mm, r) == [Log(mm, Returned(call, r)) EXCEPT !.result = r]
  IN
  IF sendRejectsDisconnected(m0.ws) THEN Return(m0, "NotConnected")
  ELSE
    LET d == sendDefault(data) IN
    IF sendRejectsPayload(d) THEN Return(m0, "InvalidPayload")
    ELSE
      LET id == generateId("evt_", m0.idCount + 1)
          event == sendEvent(id, eventName, d)
          m1 == Log([m0 EXCEPT !.idCount = @ + 1], Generated(call, id))
          m2 == dispatch(m1, call, "client." \o eventName, event,
                         ls[1], ls, depth)
          m3 == dispatch(m2, call, "client.*", event,
                         ls[2], ls, depth)
      IN
      \* this.ws.send(...) with this.ws === null throws a TypeError
      IF m3.ws = Null THEN Return(m3, "TypeError")
      ELSE Return([Log(m3, Written(call, m3.ws, JSONstringify(event)))
                     EXCEPT !.sentIds = Append(@, Get(event, "event_id"))],
                  "true")

\* receive(eventName, event) without its dispatch of server.<eventName>
receiveWildcardOnly(m, eventName, event) ==
  [Log(m, Dispatched(0, "server.*", event)) EXCEPT !.result = "true"]

\* receive(eventName, event)
receive(m, eventName, event) ==
  [Log(Log(m, Dispatched(0, "server." \o eventName, event)),
       Dispatched(0, "server.*", event))
     EXCEPT !.result = "true"]

\* ---------------------------------------------------------------- state
\* pairFirst is the channel of the latest connect() call that constructed
\* one and has had no disconnect() call after it (Null: there is none). For
\* a connect() call, the state of that channel at the call.
PairState ==
  IF pairFirst = Null THEN "none"
  ELSE IF sockets[pairFirst].st = "open" THEN "open"
  ELSE IF sockets[pairFirst].st \in {"importing", "connecting"}
          /\ sockets[pairFirst].errored = "no" THEN "pending"
  ELSE "over"

\* The last call or callback: what it was, its arguments, this.ws before it
\* ran, what it returned or threw, and what it dispatched and wrote, in
\* order.
Last(op, ch, name, data, before, m) ==
  [op |-> op, ch |-> ch, name |-> name, data |-> data, wsBefore |-> before,
   pairBefore |-> IF op = "connect" THEN PairState ELSE "none",
   result |-> m.result, trace |-> m.trace]

\* the machine's fields written back to the variables
Commit(m) ==
  /\ ws' = m.ws
  /\ sockets' = m.sockets
  /\ idCount' = m.idCount
  /\ sentIds' = m.sentIds
  /\ pairFirst' = m.pairFirst

Init ==
  /\ listeners = <<"none", "none">>
  /\ ws = Null
  /\ sockets = [c \in Channels |-> NoSocket]
  /\ idCount = 0
  /\ sendCalls = 0
  /\ sentIds = <<>>
  /\ pairFirst = Null
  /\ last = Last("init", Null, "", Undefined, Null, Now)

\* on('client.<eventName>', f) or on('client.*', f), before the client is
\* first used
On(l) ==
  /\ last.op = "init"
  /\ l # listeners
  /\ listeners' = l
  /\ last' = Last("on", Null, "", Undefined, ws, Now)
  /\ UNCHANGED <<ws, sockets, idCount, sendCalls, sentIds, pairFirst>>

Constructed == {c \in Channels : sockets[c].st # "none"}

\* connect() while this.ws is set: throws 'Already connected'
ConnectRejected ==
  /\ isConnected(ws)
  /\ last' = Last("connect", Null, "", Undefined, ws,
                  [Now EXCEPT !.result = "AlreadyConnected"])
  /\ UNCHANGED <<listeners, ws, sockets, idCount, sendCalls, sentIds,
                 pairFirst>>

\* connect() otherwise: the call passes the check and goes on to construct
\* its WebSocket: under Node after awaiting import('ws'), so that other calls
\* and callbacks may run first; in a browser in the same turn (Construct
\* follows at once)
Connect ==
  /\ ~isConnected(ws)
  /\ Cardinality(Constructed) < MaxChannels
  /\ LET c == Cardinality(Constructed) + 1 IN
     /\ sockets' = [sockets EXCEPT ![c] =
                      [NoSocket EXCEPT !.st = "importing",
                                       !.future = "pending"]]
     /\ last' = Last("connect", c, "", Undefined, ws,
                     [Now EXCEPT !.result = "pending"])
     /\ pairFirst' = c
  /\ UNCHANGED <<listeners, ws, idCount, sendCalls, sentIds>>

\* new WebSocket(fullUrl), and the 'message', 'error' and 'open' listeners
Construct(c) ==
  /\ sockets[c].st = "importing"
  /\ sockets' = [sockets EXCEPT ![c].st = "connecting"]
  /\ last' = Last("construct", c, "", Undefined, ws, Now)
  /\ UNCHANGED <<listeners, ws, idCount, sendCalls, sentIds, pairFirst>>

\* the 'open' listener of channel c
Opened(c) ==
  /\ sockets[c].st = "connecting"
  /\ sockets[c].errored = "no"
  /\ ws' = c
  /\ sockets' = [sockets EXCEPT ![c].st = "open", ![c].opened = TRUE,
                                ![c].future = "resolved"]
  /\ last' = Last("opened", c, "", Undefined, ws, Now)
  /\ UNCHANGED <<listeners, idCount, sendCalls, sentIds, pairFirst>>

\* dispatch('close', { error: flag }) by a listener of channel c
dispatchClose(m, c, flag) ==
  [Log(m, Dispatched(0, "close",
                     << <<"error", IF flag THEN "true" ELSE "false">> >>))
     EXCEPT !.sockets[c].closes = Append(@, flag)]

\* the 'error' listener bound when the socket is constructed:
\* this.disconnect(ws); reject(...)
connectionErrorHandler(m, c) ==
  [disconnect(m, c) EXCEPT !.sockets[c].future =
                             IF @ = "pending" THEN "rejected" ELSE @]

\* the post-open 'error' listener without its this.disconnect(ws)
postOpenErrorKeepsHandle(m, c) == dispatchClose(m, c, TRUE)

\* the 'error' listener bound by the 'open' listener:
\* this.disconnect(ws); this.dispatch('close', { error: true })
postOpenErrorHandler(m, c) == dispatchClose(disconnect(m, c), c, TRUE)

\* the post-open 'close' listener with the flag of the 'error' listener
postOpenCloseFlagsError(m, c) == dispatchClose(disconnect(m, c), c, TRUE)

\* the 'close' listener bound by the 'open' listener:
\* this.disconnect(ws); this.dispatch('close', { error: false })
postOpenCloseHandler(m, c) == dispatchClose(disconnect(m, c), c, FALSE)

\* channel c delivers 'error': before 'open' to connectionErrorHandler, after
\* it to the post-open listener. The failed socket goes on to close.
Error(c) ==
  /\ sockets[c].st \in {"connecting", "open", "closing"}
  /\ sockets[c].errored = "no"
  /\ LET m0 == [Now EXCEPT !.sockets[c].errored =
                             IF ~sockets[c].opened THEN "before-open"
                             ELSE IF ws = c THEN "owned" ELSE "not-owned",
                           !.sockets[c].st = "closing"]
         m1 == IF sockets[c].opened THEN postOpenErrorHandler(m0, c)
               ELSE connectionErrorHandler(m0, c)
     IN /\ Commit(m1)
        /\ last' = Last("error", c, "", Undefined, ws, m1)
  /\ UNCHANGED <<listeners, sendCalls>>

\* channel c delivers 'close'; only a socket that has opened has a listener
Closed(c) ==
  /\ sockets[c].st \in {"connecting", "open", "closing"}
  /\ LET m0 == [Now EXCEPT !.sockets[c].st = "closed"]
         m1 == IF sockets[c].opened THEN postOpenCloseHandler(m0, c) ELSE m0
     IN /\ Commit(m1)
        /\ last' = Last("closed", c, "", Undefined, ws, m1)
  /\ UNCHANGED <<listeners, sendCalls>>

\* channel c delivers 'message': JSON.parse, then receive(message.type, message)
Message(c, text) ==
  /\ sockets[c].st \in {"open", "closing"}
  /\ sockets[c].opened
  /\ sockets[c].errored = "no"
  /\ LET message == JSONparse(text)
         m1 == receive(Now, Get(message, "type"), message)
     IN /\ Commit(m1)
        /\ last' = Last("message", c, Get(message, "type"), Undefined, ws, m1)
  /\ UNCHANGED <<listeners, sendCalls>>

\* the caller's disconnect(h): h is no handle, or a socket constructed so far
Disconnect(h) ==
  /\ h # Null => sockets[h].st \notin {"none", "importing"}
  /\ LET m1 == disconnect(Now, h)
     IN /\ Commit(m1)
        /\ last' = Last("disconnect", h, "", Undefined, ws, m1)
  /\ UNCHANGED <<listeners, sendCalls>>

\* the caller's send(eventName, data)
Send(eventName, data) ==
  /\ sendCalls < MaxSends
  /\ LET m1 == send(Now, eventName, data, listeners, 0)
     IN /\ Commit(m1)
        /\ sendCalls' = IF m1.idCount # idCount THEN sendCalls + 1
                        ELSE sendCalls
        /\ last' = Last("send", Null, eventName, data, ws, m1)
  /\ UNCHANGED listeners

Next ==
  \/ \E l \in ListenerConfigs : On(l)
  \/ ConnectRejected
  \/ Connect
  \/ \E c \in Channels : Construct(c)
  \/ \E c \in Channels : Opened(c)
  \/ \E c \in Channels : Error(c)
  \/ \E c \in Channels : Closed(c)
  \/ \E c \in Channels, text \in InboundTexts : Message(c, text)
  \/ \E h \in {Null} \cup Channels : Disconnect(h)
  \/ \E n \in EventNames, d \in DataValues : Send(n, d)

Spec == Init /\ [][Next]_vars

\* The event loop runs what is ready: import('ws') settles and the socket is
\* constructed, and every constructed socket goes on to report 'open',
\* 'error' or 'close' while it can.
Fairness ==
  \A c \in Channels :
    /\ WF_vars(Construct(c))
    /\ WF_vars(Opened(c) \/ Error(c) \/ Closed(c))

LiveSpec == Spec /\ Fairness

\* ---------------------------------------------------------------- claims
\* what one call of send() logged, in order
EventsOf(trace, k) == SelectSeq(trace, LAMBDA e : e.call = k)

\* the notifications and channel writes of a call or callback
Effects(trace) == SelectSeq(trace, LAMBDA e : e.kind \in {"dispatch", "write"})

\* the send() calls of the last action, the listeners' own included
CallsOf(trace) == {i \in DOMAIN trace : trace[i].kind = "call"}

\* a mapping in the specification's sense: a plain object
IsMapping(v) == v.kind = "object"

CloseNote(flag) ==
  Dispatched(0, "close", << <<"error", IF flag THEN "true" ELSE "false">> >>)

\* C1: a connect() call that follows an earlier connect() call with no
\* disconnect() call between them fails with AlreadyConnected and constructs
\* no channel, whether the earlier call's channel is open or still pending.
C1_SecondConnectRejected ==
  (last.op = "connect" /\ last.pairBefore \in {"open", "pending"})
    => (last.result = "AlreadyConnected" /\ last.ch = Null)

\* C2: a post-open 'error' of the owned channel dispatches exactly one local
\* `close` notification, {error: true}, and leaves the client disconnected;
\* no second `close` notification follows for that channel, also not when
\* the channel then reports 'closed'.
C2_OneCloseAfterPostOpenError ==
  /\ (last.op = "error" /\ last.wsBefore = last.ch /\ last.ch # Null)
       => (Effects(last.trace) = <<CloseNote(TRUE)>> /\ ws = Null)
  /\ \A c \in Channels :
       sockets[c].errored = "owned" => sockets[c].closes = <<TRUE>>

\* C3: every send() call made while connected, with data that passes the
\* payload check, dispatches client.<name>, then client.*, then writes one
\* serialized envelope to the channel owned at the call, whatever the
\* listeners do.
C3_SendDispatchesThenWrites ==
  last.op = "send" =>
    \A i \in CallsOf(last.trace) :
      LET k == last.trace[i].call
          n == last.trace[i].name
          own == EventsOf(last.trace, k)
          eff == Effects(own)
      IN (last.trace[i].ch # Null /\ own[Len(own)].name # "InvalidPayload")
           => /\ Len(eff) = 3
              /\ eff[1].kind = "dispatch" /\ eff[1].name = "client." \o n
              /\ eff[2].kind = "dispatch" /\ eff[2].name = "client.*"
              /\ eff[2].event = eff[1].event
              /\ eff[3] = Written(k, last.trace[i].ch,
                                  JSONstringify(eff[1].event))

\* C4: send() called while isConnected() is false fails with NotConnected,
\* whatever the data, dispatches nothing, writes nothing and changes
\* nothing.
C4_SendWhileDisconnected ==
  [][(last'.op = "send" /\ ~isConnected(ws))
       => /\ last'.result = "NotConnected"
          /\ Effects(last'.trace) = <<>>
          /\ UNCHANGED <<ws, sockets, idCount, sentIds>>]_vars

\* C4's case: a send() of a number, refused as NotConnected, after the
\* channel that was owned has failed
C4_Witness ==
  /\ last.op = "send"
  /\ last.wsBefore = Null
  /\ last.data.kind = "number"
  /\ last.data.truthy
  /\ last.result = "NotConnected"
  /\ \E c \in Channels : sockets[c].errored = "owned"

\* C5: while connected, send() fails with InvalidPayload for every supplied
\* data that is not a mapping (0, "" and false included), dispatching and
\* writing nothing, and succeeds only for omitted data or a mapping.
C5_NonMappingRejected ==
  (last.op = "send" /\ last.wsBefore # Null)
    => IF last.data = Undefined \/ IsMapping(last.data)
       THEN last.result # "InvalidPayload"
       ELSE last.result = "InvalidPayload" /\ Effects(last.trace) = <<>>

\* C6: every envelope a send(name, data) call dispatches or writes has
\* type = name, also when data holds a `type` member.
C6_TypeIsEventName ==
  last.op = "send" =>
    \A i \in CallsOf(last.trace) :
      LET eff == Effects(EventsOf(last.trace, last.trace[i].call)) IN
      \A j \in DOMAIN eff : Get(eff[j].event, "type") = last.trace[i].name

\* C7: the event_id of every written envelope is the id generated for its
\* send() call, and the event_ids written over a run are pairwise distinct,
\* also when data holds an `event_id` member.
C7_EventIdsDistinct ==
  /\ \A i, j \in DOMAIN sentIds : i # j => sentIds[i] # sentIds[j]
  /\ last.op = "send" =>
       \A i \in DOMAIN last.trace :
         last.trace[i].kind = "write" =>
           \E j \in DOMAIN last.trace :
             /\ last.trace[j] =
                  Generated(last.trace[i].call,
                            Get(last.trace[i].event, "event_id"))

\* C8: an 'error' of a channel that has not opened fails the connect()
\* future, which never succeeds; the client is disconnected afterwards; no
\* local `close` notification is dispatched for the attempt.
C8_PreOpenErrorFailsConnect ==
  /\ (last.op = "error" /\ sockets[last.ch].errored = "before-open")
       => (~isConnected(ws) /\ Effects(last.trace) = <<>>)
  /\ \A c \in Channels :
       sockets[c].errored = "before-open"
         => (sockets[c].future = "rejected" /\ sockets[c].closes = <<>>)

C10_StaleCallbackIgnored ==
  (last.op \in {"closed", "error"} /\ last.wsBefore # Null
     /\ last.ch # last.wsBefore)
    => /\ ws = last.wsBefore
       /\ sockets[ws].st = "open"
       /\ Effects(last.trace) = <<>>

\* a channel that has reported 'opened' and has since neither reported
\* 'error' or 'closed' nor been closed by the client
Live(c) ==
  sockets[c].opened /\ sockets[c].st = "open" /\ sockets[c].errored = "no"

\* the state of the client: Connected while the handle it holds is a live
\* channel, else Connecting while a connect() future is pending
ConnectionState ==
  IF \E c \in Channels : ws = c /\ Live(c) THEN "Connected"
  ELSE IF \E c \in Channels : sockets[c].future = "pending" THEN "Connecting"
  ELSE "Disconnected"

\* C11: in every reachable state isConnected() is true exactly when the
\* client is Connected: the handle it holds is a channel that has opened and
\* has not failed, closed or been released since; it is false in
\* Disconnected and in Connecting.
C11_ConnectedIffLiveHandle ==
  isConnected(ws) <=> ConnectionState = "Connected"

\* C11's case: the owned channel has reported 'error' after 'opened', and
\* isConnected() has gone from true to false
C11_Witness ==
  /\ last.op = "error"
  /\ last.ch # Null
  /\ last.wsBefore = last.ch
  /\ sockets[last.ch].opened
  /\ ~isConnected(ws)
  /\ ConnectionState = "Disconnected"

C13_NoLostChannel ==
  \A c \in Channels : Live(c) => ws = c

\* C14: when the owned channel reports 'closed' after 'opened' with no
\* 'error' before it, the client becomes disconnected and exactly one local
\* `close` notification is dispatched, with {error: false}; a `close`
\* notification with {error: true} is dispatched only by a channel's
\* post-open 'error'.
C14_CleanCloseNotifiesOnce ==
  /\ (last.op = "closed" /\ last.ch # Null /\ last.wsBefore = last.ch
        /\ sockets[last.ch].errored = "no")
       => /\ ~isConnected(ws)
          /\ Effects(last.trace) = <<CloseNote(FALSE)>>
          /\ sockets[last.ch].closes = <<FALSE>>
  /\ (\E i \in DOMAIN last.trace : last.trace[i] = CloseNote(TRUE))
       => (last.op = "error" /\ sockets[last.ch].opened)
  /\ \A c \in Channels :
       (\E i \in DOMAIN sockets[c].closes : sockets[c].closes[i])
         => sockets[c].errored \in {"owned", "not-owned"}

\* C14's case: the owned channel, opened and never failed, has reported
\* 'closed'
C14_Witness ==
  /\ last.op = "closed"
  /\ last.ch # Null
  /\ last.wsBefore = last.ch
  /\ sockets[last.ch].opened
  /\ sockets[last.ch].errored = "no"
  /\ sockets[last.ch].st = "closed"
  /\ ws = Null
  /\ last.trace = <<CloseNote(FALSE)>>

\* C15: once disconnect() with no handle has returned success,
\* isConnected() is false and stays false until connect() is called again:
\* no step that follows the return and is not a connect() call, the 'opened'
\* callback of a channel whose connect() came before the disconnect()
\* included, leaves the client connected.
C15_NoConnectAfterDisconnect ==
  [][(last.op = "disconnect" /\ last.ch = Null /\ last.result = "true"
        /\ last'.op # "connect")
       => ~isConnected(ws')]_vars

\* C16: a server.<t> or server.* notification is dispatched only for a
\* message delivered by the channel the client owns when it arrives: a
\* message of a channel that was released by disconnect() or superseded by
\* another channel dispatches nothing.
C16_OnlyOwnedChannelDispatches ==
  last.op = "message"
    => (last.ch = last.wsBefore \/ Effects(last.trace) = <<>>)

\* C17: the future of every connect() call that constructs a channel is
\* eventually completed, given that the channel goes on to report 'opened',
\* 'error' or 'closed'; also when it reports 'closed' before 'opened' and
\* no 'error'.
C17_FutureCompletes ==
  \A c \in Channels :
    (sockets[c].future = "pending") ~> (sockets[c].future # "pending")

====
